---- MODULE Spec2Model ----
(***************************************************************************)
(* Model of the synchronization engine of src/app.py: the process-wide    *)
(* run state (IS_RUNNING, ABORT_FLAG), the route handlers that start and  *)
(* stop background runs, and the two background workers worker_sync and   *)
(* worker_clear, every statement that reads or writes shared state being  *)
(* one step of its thread.                                                 *)
(***************************************************************************)
EXTENDS Integers, Sequences, FiniteSets, TLC

\* ------------------------------------------------------------------ bounds
MaxRuns == 2        \* worker threads spawned in one behaviour
MaxEvents == 1      \* events a fetch + normalize can yield
MaxCal == 1         \* events already in the remote calendar window at start
JitterSteps == 2    \* random.random() in [0,1) is drawn as j/JitterSteps
ScenarioEvents == 3 \* events of the single-run specification SpecRun
LogExtra == 3       \* log lines written beyond the capacity of the log buffer
MaxLessons == 2     \* lesson records of one timetable payload
MaxWeek == 2        \* ISO weeks of the year of the session

\* ------------------------------------------------------- program constants
max_retries == 8    \* app.py:230
clear_passes == 5   \* app.py:263  range(1, 6)
maxResults == 250   \* app.py:270
LogCap == 500       \* app.py:34

Runs == 1..MaxRuns

\* The threads that call log_msg: the worker threads and, as thread 0, the thread
\* of a /stop request (app.py:348).
LogThreads == 0..MaxRuns

VARIABLES
    IS_RUNNING,     \* app.py:21
    ABORT_FLAG,     \* app.py:20
    stopPc,         \* the /stop request in flight: "idle", "checked" (past line 346),
                    \* "log" (past 347), "logging" (inside the log_msg of 348)
    nSpawned,       \* worker threads started so far
    pc,             \* pc[w]: position of worker thread w
    kind,           \* kind[w]: "sync" (worker_sync) or "clear" (worker_clear)
    args,           \* history: args[w] is the (start, end) the thread of run w was given
    total,          \* worker_sync: total = len(events)
    i,              \* worker_sync: 1-based index of the event of the current iteration
    attempt,        \* worker_sync: attempt of the retry loop
    count,          \* worker_sync: count
    passNum,        \* worker_clear: pass_num
    found,          \* worker_clear: len(events) of the current pass
    idx,            \* worker_clear: 1-based index of the ref of the current iteration
    batch_del,      \* worker_clear: batch_del
    total_deleted,  \* worker_clear: total_deleted
    service,        \* worker_clear: whether service is a session (TRUE) or None (FALSE)
    calendar,       \* remote calendar: number of events inside the window
    \* ---- history (never read by the program)
    inserted,       \* inserted[w]: indices of the events w inserted, in order of insertion
    failed,         \* failed[w]: indices of the events w gave up (error or retries exhausted)
    tries,          \* tries[w]: insert calls issued for the current event
    lastDelay,      \* lastDelay[w]: last backoff sleep of the current event (0: none yet)
    rlTotal,        \* rlTotal[w]: rate-limit answers the run got so far, capped at max_retries
    gotError,       \* gotError[w]: an insert of the run was answered by another HttpError
    stoppedByUser,  \* stoppedByUser[w]: w left a loop because it read ABORT_FLAG = True
    abortSet,       \* abortSet[w]: /stop wrote ABORT_FLAG = True while w was running
    abortInSleep,   \* history: ABORT_FLAG was set while run w was in its backoff sleep
    insAfterAbort,  \* insAfterAbort[w]: inserts of w that succeeded after abortSet[w]
    cfgBlank,       \* cfgBlank[w]: get_sdui_data found the token or the user id blank
    sduiRequests,   \* sduiRequests[w]: requests.get calls w issued
    lists,          \* lists[w]: list calls w issued to the remote calendar
    lastList,       \* lastList[w]: outcome of the last list step: none, failed, empty, items
    delCalls,       \* delCalls[w]: delete calls w issued
    lastReply,      \* lastReply[w]: answer to the last delete call of w
    delLog,         \* delLog[w]: the log line the handling of that answer wrote
    \* ---- the log
    LOG_BUFFER,     \* app.py:19: the entries, each standing for the number of its append
    logPc,          \* logPc[t]: position of thread t in log_msg: idle, check, pop
    logAppended,    \* history: LOG_BUFFER.append calls so far
    \* ---- the normalizers
    lessons,        \* the lesson records of the payload being normalized
    normMode,       \* "idle", "app" (process_sdui_data), "csv" (transform_sdui_to_csv_rows)
    li,             \* 1-based index of the record of the current iteration
    events,         \* process_sdui_data: events
    rows,           \* transform_sdui_to_csv_rows: rows
    srcOf           \* history: srcOf[k] is the index of the record output k came from

shared == <<IS_RUNNING, ABORT_FLAG>>
callers == <<stopPc, nSpawned>>
syncLocals == <<total, i, attempt, count>>
clearLocals == <<passNum, found, idx, batch_del, total_deleted, service>>
syncHist == <<inserted, failed, tries, lastDelay, rlTotal, gotError>>
abortHist == <<stoppedByUser, abortSet, abortInSleep, insAfterAbort>>
fetchHist == <<cfgBlank, sduiRequests>>
clearHist == <<lists, lastList, delCalls, lastReply, delLog>>
logVars == <<LOG_BUFFER, logPc, logAppended>>
normVars == <<lessons, normMode, li, events, rows, srcOf>>
progVars == <<shared, callers, pc, kind, args, syncLocals, clearLocals, calendar, syncHist,
              abortHist, fetchHist, clearHist, normVars>>
vars == <<IS_RUNNING, ABORT_FLAG, stopPc, nSpawned, pc, kind, args,
          total, i, attempt, count,
          passNum, found, idx, batch_del, total_deleted, service, calendar,
          inserted, failed, tries, lastDelay, rlTotal, gotError,
          stoppedByUser, abortSet, abortInSleep, insAfterAbort,
          cfgBlank, sduiRequests, lists, lastList, delCalls, lastReply, delLog,
          LOG_BUFFER, logPc, logAppended,
          lessons, normMode, li, events, rows, srcOf>>

\* ------------------------------------------------------------ helpers
Min(a, b) == IF a <= b THEN a ELSE b

\* A worker thread exists and has not ended (normally or by an uncaught exception).
Active(w) == pc[w] \notin {"unborn", "done", "dead"}

\* The thread has executed its first statement (IS_RUNNING = True).
Running(w) == Active(w) /\ pc[w] # "spawned"

\* Answers of the remote calendar to one insert or delete call.
HttpStatuses == {403, 404, 410, 429, 500}
OkReply == [kind |-> "ok", status |-> 200, usageLimits |-> FALSE]
ExceptionReply == [kind |-> "exception", status |-> 0, usageLimits |-> FALSE]
HttpErrors == {[kind |-> "HttpError", status |-> s, usageLimits |-> u] :
                 s \in HttpStatuses, u \in BOOLEAN}

\* app.py:239  e.resp.status == 403 and 'usageLimits' in str(e)
IsRateLimit(e) == e.kind = "HttpError" /\ e.status = 403 /\ e.usageLimits

\* Variant: the delay does not grow with the attempt.
BackoffDelay_Const(a, j) == JitterSteps + j

\* Variant: the delay is capped at 32 s.
BackoffDelay_Capped(a, j) == Min(2 ^ a, 32) * JitterSteps + j

\* app.py:240  wait = (2 ** attempt) + random.random(), in units of 1/JitterSteps s
BackoffDelay(a, j) == (2 ^ a) * JitterSteps + j

\* The state after the module is loaded, the window of the remote calendar holding
\* one of the numbers of events in cals.
InitWindow(cals) ==
    /\ IS_RUNNING = FALSE
    /\ ABORT_FLAG = FALSE
    /\ stopPc = "idle"
    /\ nSpawned = 0
    /\ pc = [w \in Runs |-> "unborn"]
    /\ kind = [w \in Runs |-> "none"]
    /\ args = [w \in Runs |-> <<0, 0>>]
    /\ total = [w \in Runs |-> 0]
    /\ i = [w \in Runs |-> 0]
    /\ attempt = [w \in Runs |-> 0]
    /\ count = [w \in Runs |-> 0]
    /\ passNum = [w \in Runs |-> 0]
    /\ found = [w \in Runs |-> 0]
    /\ idx = [w \in Runs |-> 0]
    /\ batch_del = [w \in Runs |-> 0]
    /\ total_deleted = [w \in Runs |-> 0]
    /\ service = [w \in Runs |-> FALSE]
    /\ calendar \in cals
    /\ inserted = [w \in Runs |-> <<>>]
    /\ failed = [w \in Runs |-> {}]
    /\ tries = [w \in Runs |-> 0]
    /\ lastDelay = [w \in Runs |-> 0]
    /\ rlTotal = [w \in Runs |-> 0]
    /\ gotError = [w \in Runs |-> FALSE]
    /\ stoppedByUser = [w \in Runs |-> FALSE]
    /\ abortSet = [w \in Runs |-> FALSE]
    /\ abortInSleep = [w \in Runs |-> FALSE]
    /\ insAfterAbort = [w \in Runs |-> 0]
    /\ cfgBlank = [w \in Runs |-> FALSE]
    /\ sduiRequests = [w \in Runs |-> 0]
    /\ lists = [w \in Runs |-> 0]
    /\ lastList = [w \in Runs |-> "none"]
    /\ delCalls = [w \in Runs |-> 0]
    /\ lastReply = [w \in Runs |-> "none"]
    /\ delLog = [w \in Runs |-> "none"]
    /\ LOG_BUFFER = <<>>
    /\ logPc = [t \in LogThreads |-> "idle"]
    /\ logAppended = 0
    /\ lessons = <<>>
    /\ normMode = "idle"
    /\ li = 0
    /\ events = <<>>
    /\ rows = <<>>
    /\ srcOf = <<>>

Init == InitWindow(0..MaxCal)

\* ------------------------------------------------------- route handlers
\* The four start routes and the worker each spawns (app.py:372, 390, 403, 421).
Routes == {"sync_today", "sync_week", "sync_custom", "clear_weeks"}
WorkerOf(route) == IF route = "clear_weeks" THEN "clear" ELSE "sync"

\* sync_today / sync_week / sync_custom / clear_weeks: `if IS_RUNNING: flash(...);
\* return` (app.py:367, 378, 397, 410), else threading.Thread(target=worker,
\* args=(start, end)).start(). The refusing branch changes no state. Between the
\* check and the start the handler touches no shared state, and the new thread has
\* executed nothing of the worker yet: it exists, in position "spawned".
\* Dates are day numbers of the year of the session, day 1 being the Monday of ISO
\* week 1. A form value is a number; 0 stands for a field that is blank, absent or no
\* number, MaxWeek + 1 as a week for a week the year does not have.
FormValues == 0..(MaxWeek + 1)
Days == 1..(7 * MaxWeek)
Forms == [today : Days, start : FormValues, end : FormValues]
DefaultForm == [today |-> 1, start |-> 1, end |-> 1]

\* datetime.fromisocalendar(year, week, weekday).date(); it raises for a week the
\* year does not have
IsWeek(v) == v \in 1..MaxWeek
fromisocalendar(week, weekday) == 7 * (week - 1) + weekday

\* end_w = int(request.form.get('end_week') or start_w)
EndWeek(form) == IF form.end = 0 THEN form.start ELSE form.end

\* the try block of the handler raises (int() of a blank field, a week out of range,
\* a date strptime cannot parse, the `raise ValueError` of sync_week): the bare except
\* flashes "Input Error" and no thread is started
Raises(route, form) ==
    CASE route = "sync_today" -> FALSE
      [] route = "sync_week" ->
            form.start = 0 \/ form.start > EndWeek(form)
               \/ ~IsWeek(form.start) \/ ~IsWeek(EndWeek(form))
      [] route = "sync_custom" -> form.start = 0 \/ form.end = 0
      [] route = "clear_weeks" ->
            form.start = 0 \/ ~IsWeek(form.start) \/ ~IsWeek(EndWeek(form))

\* args=(start, end) of the thread
ThreadArgs(route, form) ==
    CASE route = "sync_today" -> <<form.today, form.today>>
      [] route = "sync_custom" -> <<form.start, form.end>>
      [] OTHER -> <<fromisocalendar(form.start, 1), fromisocalendar(EndWeek(form), 7)>>

\* `record` says whether the arguments of the thread, which the model of the workers
\* does not read, are kept.
StartRoute(route, form, record) ==
    /\ nSpawned < MaxRuns
    /\ ~IS_RUNNING
    /\ ~Raises(route, form)
    /\ LET w == nSpawned + 1 IN
        /\ nSpawned' = w
        /\ pc' = [pc EXCEPT ![w] = "spawned"]
        /\ kind' = [kind EXCEPT ![w] = WorkerOf(route)]
        /\ args' = [args EXCEPT ![w] = IF record THEN ThreadArgs(route, form) ELSE @]
    /\ UNCHANGED <<shared, stopPc, syncLocals, clearLocals, calendar, syncHist,
                   abortHist, fetchHist, clearHist, logVars, normVars>>

\* stop_process, `if IS_RUNNING:` taken (app.py:346). When IS_RUNNING is False the
\* handler answers not_running and changes no state.
StopCheck ==
    /\ stopPc = "idle"
    /\ IS_RUNNING
    /\ stopPc' = "checked"
    /\ UNCHANGED <<shared, nSpawned, pc, kind, args, syncLocals, clearLocals,
                   calendar, syncHist, abortHist, fetchHist, clearHist, logVars, normVars>>

\* stop_process, `ABORT_FLAG = True` (app.py:347); the handler goes on to its
\* log_msg call and the answer 'stopping' (app.py:348-349). `logs` says whether the
\* log_msg call is followed step by step or left out with the rest of the log;
\* `record` says whether the history of where the write found the workers is kept.
StopWrite(logs, record) ==
    /\ stopPc = "checked"
    /\ ABORT_FLAG' = TRUE
    /\ stopPc' = IF logs THEN "log" ELSE "idle"
    /\ abortSet' = [w \in Runs |-> abortSet[w] \/ Running(w)]
    /\ abortInSleep' = [w \in Runs |->
                          abortInSleep[w] \/ (record /\ kind[w] = "sync" /\ pc[w] = "sleep")]
    /\ UNCHANGED <<IS_RUNNING, nSpawned, pc, kind, args, syncLocals, clearLocals,
                   calendar, syncHist, stoppedByUser, insAfterAbort, fetchHist,
                   clearHist, logVars, normVars>>

\* ------------------------------------------------- both workers: the start
\* worker_sync / worker_clear: `IS_RUNNING = True` (app.py:188, 252).
WorkerSetRunning(w) ==
    /\ pc[w] = "spawned"
    /\ IS_RUNNING' = TRUE
    /\ pc' = [pc EXCEPT ![w] = "clearAbort"]
    /\ UNCHANGED <<ABORT_FLAG, callers, kind, args, syncLocals, clearLocals, calendar,
                   syncHist, abortHist, fetchHist, clearHist, logVars, normVars>>

\* Variant: the worker does not reset ABORT_FLAG when it starts.
WorkerClearAbort_Skip(w) ==
    /\ pc[w] = "clearAbort"
    /\ pc' = [pc EXCEPT ![w] = IF kind[w] = "sync" THEN "fetch" ELSE "session"]
    /\ UNCHANGED <<shared, callers, kind, args, syncLocals, clearLocals, calendar,
                   syncHist, abortHist, fetchHist, clearHist, logVars, normVars>>

\* worker_sync / worker_clear: `ABORT_FLAG = False` (app.py:189, 253).
WorkerClearAbort(w) ==
    /\ pc[w] = "clearAbort"
    /\ ABORT_FLAG' = FALSE
    /\ pc' = [pc EXCEPT ![w] = IF kind[w] = "sync" THEN "fetch" ELSE "session"]
    /\ UNCHANGED <<IS_RUNNING, callers, kind, args, syncLocals, clearLocals, calendar,
                   syncHist, abortHist, fetchHist, clearHist, logVars, normVars>>

\* ------------------------------------------------------------ worker_sync
\* Every step of a worker leaves the other workers' locals alone.
SyncFrame == <<callers, kind, args, clearLocals, abortSet, abortInSleep, clearHist, fetchHist, logVars, normVars>>

\* Values of the globals SDUI_AUTH_TOKEN and SDUI_USER_ID (app.py:24-25, 78-79):
\* None (written "None"), the empty string, a string of white space, a value.
ConfigValues == {"None", "", " ", "set"}

\* app.py:115  `not v`: None and '' are blank, every other string is not.
Blank(v) == v \in {"None", ""}

\* Variant: the request is sent before the configuration is looked at.
get_sdui_data_RequestFirst(token, user, netOk) ==
    [request |-> TRUE, data |-> ~(Blank(token) \/ Blank(user)) /\ netOk]

\* app.py:114-131  get_sdui_data: blank configuration returns None before any
\* request; else one requests.get, whose every exception (network, HTTP status,
\* JSON) is caught and gives None. request: a request was sent; data: not None.
get_sdui_data(token, user, netOk) ==
    IF Blank(token) \/ Blank(user)
      THEN [request |-> FALSE, data |-> FALSE]
      ELSE [request |-> TRUE, data |-> netOk]

\* app.py:192-197  data = get_sdui_data(start, end); `if not data:` logs and
\* ends the run.
SyncFetch(w, token, user, netOk) ==
    LET res == get_sdui_data(token, user, netOk) IN
    /\ pc[w] = "fetch"
    /\ kind[w] = "sync"
    /\ cfgBlank' = [cfgBlank EXCEPT ![w] = Blank(token) \/ Blank(user)]
    /\ sduiRequests' = [sduiRequests EXCEPT ![w] = IF res.request THEN @ + 1 ELSE @]
    /\ IF res.data
         THEN /\ pc' = [pc EXCEPT ![w] = "normalize"]
              /\ UNCHANGED IS_RUNNING
         ELSE /\ pc' = [pc EXCEPT ![w] = "done"]
              /\ IS_RUNNING' = FALSE
    /\ UNCHANGED <<ABORT_FLAG, callers, kind, args, clearLocals, abortSet, abortInSleep, clearHist, logVars, normVars,
                   syncLocals, calendar, syncHist, stoppedByUser, insAfterAbort>>

\* app.py:199-203  events = process_sdui_data(data) yields n events; none ends the run.
SyncNormalize(w, n) ==
    /\ pc[w] = "normalize"
    /\ IF n = 0
         THEN /\ pc' = [pc EXCEPT ![w] = "done"]
              /\ IS_RUNNING' = FALSE
              /\ UNCHANGED total
         ELSE /\ pc' = [pc EXCEPT ![w] = "session"]
              /\ total' = [total EXCEPT ![w] = n]
              /\ UNCHANGED IS_RUNNING
    /\ UNCHANGED <<ABORT_FLAG, SyncFrame, i, attempt, count, calendar, syncHist,
                   stoppedByUser, insAfterAbort>>

\* app.py:199  process_sdui_data raises (pytz.timezone(TIMEZONE) on an unknown zone
\* name, a payload whose 'data' is no mapping): nothing in worker_sync catches it,
\* the thread ends there.
SyncNormalizeRaises(w) ==
    /\ pc[w] = "normalize"
    /\ pc' = [pc EXCEPT ![w] = "dead"]
    /\ UNCHANGED <<shared, SyncFrame, syncLocals, calendar, syncHist,
                   stoppedByUser, insAfterAbort>>

\* app.py:205-213  service = get_calendar_service(): a session, None (credentials
\* file missing), or an exception of the grant flow / build(), which is not caught.
\* With a session: count = 0, total = len(events), and the loop starts.
SyncSession(w, r) ==
    /\ pc[w] = "session"
    /\ kind[w] = "sync"
    /\ IF r = "service"
         THEN /\ pc' = [pc EXCEPT ![w] = "itemCheck"]
              /\ count' = [count EXCEPT ![w] = 0]
              /\ i' = [i EXCEPT ![w] = 1]
              /\ UNCHANGED IS_RUNNING
         ELSE IF r = "none"
         THEN /\ pc' = [pc EXCEPT ![w] = "done"]
              /\ IS_RUNNING' = FALSE
              /\ UNCHANGED <<count, i>>
         ELSE /\ pc' = [pc EXCEPT ![w] = "dead"]
              /\ UNCHANGED <<IS_RUNNING, count, i>>
    /\ UNCHANGED <<ABORT_FLAG, SyncFrame, total, attempt, calendar, syncHist,
                   stoppedByUser, insAfterAbort>>

\* app.py:215-218  the head of `for i, event in enumerate(events)` and the abort
\* check of the iteration; on to the retry loop with attempt = 0 (app.py:231).
SyncItemCheck(w) ==
    /\ pc[w] = "itemCheck"
    /\ IF i[w] > total[w]
         THEN /\ pc' = [pc EXCEPT ![w] = "finish"]
              /\ UNCHANGED <<attempt, tries, lastDelay, stoppedByUser>>
         ELSE IF ABORT_FLAG
         THEN /\ pc' = [pc EXCEPT ![w] = "finish"]
              /\ stoppedByUser' = [stoppedByUser EXCEPT ![w] = TRUE]
              /\ UNCHANGED <<attempt, tries, lastDelay>>
         ELSE /\ pc' = [pc EXCEPT ![w] = "attemptCheck"]
              /\ attempt' = [attempt EXCEPT ![w] = 0]
              /\ tries' = [tries EXCEPT ![w] = 0]
              /\ lastDelay' = [lastDelay EXCEPT ![w] = 0]
              /\ UNCHANGED stoppedByUser
    /\ UNCHANGED <<shared, SyncFrame, total, i, count, calendar,
                   inserted, failed, rlTotal, gotError, insAfterAbort>>

\* Variant: one attempt more than max_retries.
RetriesExhausted_Late(a) == a > max_retries

\* app.py:231  range(max_retries) is exhausted when attempt reaches max_retries.
RetriesExhausted(a) == a >= max_retries

\* app.py:231-232  the head of `for attempt in range(max_retries)` and
\* `if ABORT_FLAG: break`. When the range is exhausted, or on the break, the
\* iteration of the outer loop is over and the next event follows.
SyncAttemptCheck(w) ==
    /\ pc[w] = "attemptCheck"
    /\ IF RetriesExhausted(attempt[w])
         THEN /\ pc' = [pc EXCEPT ![w] = "itemCheck"]
              /\ i' = [i EXCEPT ![w] = @ + 1]
              /\ failed' = [failed EXCEPT ![w] = @ \cup {i[w]}]
              /\ UNCHANGED stoppedByUser
         ELSE IF ABORT_FLAG
         THEN /\ pc' = [pc EXCEPT ![w] = "itemCheck"]
              /\ i' = [i EXCEPT ![w] = @ + 1]
              /\ stoppedByUser' = [stoppedByUser EXCEPT ![w] = TRUE]
              /\ UNCHANGED failed
         ELSE /\ pc' = [pc EXCEPT ![w] = "insert"]
              /\ UNCHANGED <<i, failed, stoppedByUser>>
    /\ UNCHANGED <<shared, SyncFrame, total, attempt, count, calendar,
                   inserted, tries, lastDelay, rlTotal, gotError, insAfterAbort>>

\* Variant: no `break` after a successful insert, the retry loop goes on.
UploadedNext_NoBreak(w) == [pc |-> "sleep", i |-> i[w]]

\* app.py:235-237  after a successful insert: `break` out of the retry loop, the
\* outer loop goes on with the next event.
UploadedNext(w) == [pc |-> "itemCheck", i |-> i[w] + 1]

\* Variant: an insert error ends the run.
ErrorNext_EndsRun(w) == [pc |-> "finish", i |-> i[w]]

\* app.py:243-245  after an HttpError that is no rate limit: log "Error on item"
\* and `break` out of the retry loop, the outer loop goes on with the next event.
ErrorNext(w) == [pc |-> "itemCheck", i |-> i[w] + 1]

\* app.py:233-245  one insert call and the handling of its answer r; j is the
\* value random.random() returns if the answer is a rate limit. `record` says
\* whether the history of the run's answers and delays is kept.
SyncInsert(w, r, j, record) ==
    /\ pc[w] = "insert"
    /\ tries' = [tries EXCEPT ![w] = @ + 1]
    /\ rlTotal' = [rlTotal EXCEPT ![w] =
                     IF record /\ IsRateLimit(r) THEN Min(@ + 1, max_retries) ELSE @]
    /\ gotError' = [gotError EXCEPT ![w] =
                      @ \/ (record /\ r.kind = "HttpError" /\ ~IsRateLimit(r))]
    /\ IF r.kind = "ok"
         THEN /\ count' = [count EXCEPT ![w] = @ + 1]
              /\ calendar' = calendar + 1
              /\ inserted' = [inserted EXCEPT ![w] = Append(@, i[w])]
              /\ insAfterAbort' = [insAfterAbort EXCEPT ![w] =
                                     IF record /\ abortSet[w] THEN @ + 1 ELSE @]
              /\ pc' = [pc EXCEPT ![w] = UploadedNext(w).pc]
              /\ i' = [i EXCEPT ![w] = UploadedNext(w).i]
              /\ UNCHANGED <<failed, lastDelay>>
         ELSE IF r.kind = "exception"
         THEN \* not an HttpError: `except HttpError` does not catch it
              /\ pc' = [pc EXCEPT ![w] = "dead"]
              /\ UNCHANGED <<count, calendar, inserted, insAfterAbort, i, failed,
                             lastDelay>>
         ELSE IF IsRateLimit(r)
         THEN /\ lastDelay' = [lastDelay EXCEPT ![w] =
                                 IF record THEN BackoffDelay(attempt[w], j) ELSE @]
              /\ pc' = [pc EXCEPT ![w] = "sleep"]
              /\ UNCHANGED <<count, calendar, inserted, insAfterAbort, i, failed>>
         ELSE /\ failed' = [failed EXCEPT ![w] = @ \cup {i[w]}]
              /\ pc' = [pc EXCEPT ![w] = ErrorNext(w).pc]
              /\ i' = [i EXCEPT ![w] = ErrorNext(w).i]
              /\ UNCHANGED <<count, calendar, inserted, insAfterAbort, lastDelay>>
    /\ UNCHANGED <<shared, SyncFrame, total, attempt, stoppedByUser>>

\* app.py:242  time.sleep(wait) returns; the retry loop takes its next attempt.
SyncSleep(w) ==
    /\ pc[w] = "sleep"
    /\ attempt' = [attempt EXCEPT ![w] = @ + 1]
    /\ pc' = [pc EXCEPT ![w] = "attemptCheck"]
    /\ UNCHANGED <<shared, SyncFrame, total, i, count, calendar, syncHist,
                   stoppedByUser, insAfterAbort>>

\* app.py:247-248  the final log line and `IS_RUNNING = False`.
SyncFinish(w) ==
    /\ pc[w] = "finish"
    /\ kind[w] = "sync"
    /\ IS_RUNNING' = FALSE
    /\ pc' = [pc EXCEPT ![w] = "done"]
    /\ UNCHANGED <<ABORT_FLAG, SyncFrame, syncLocals, calendar, syncHist,
                   stoppedByUser, insAfterAbort>>

\* ----------------------------------------------------------- worker_clear
ClearFrame == <<callers, kind, args, syncLocals, syncHist, abortSet, abortInSleep, insAfterAbort, fetchHist,
               clearHist, logVars, normVars>>

\* app.py:256-261  service = get_calendar_service() (a session, None, or an
\* exception that nothing catches), the window, total_deleted = 0; the pass loop
\* starts with pass_num = 1.
ClearSession(w, r) ==
    /\ pc[w] = "session"
    /\ kind[w] = "clear"
    /\ IF r = "raises"
         THEN /\ pc' = [pc EXCEPT ![w] = "dead"]
              /\ UNCHANGED <<service, passNum, total_deleted>>
         ELSE /\ pc' = [pc EXCEPT ![w] = "passCheck"]
              /\ service' = [service EXCEPT ![w] = (r = "service")]
              /\ passNum' = [passNum EXCEPT ![w] = 1]
              /\ total_deleted' = [total_deleted EXCEPT ![w] = 0]
    /\ UNCHANGED <<shared, ClearFrame, found, idx, batch_del, calendar,
                   stoppedByUser>>

\* Variant: one pass more.
PassesExhausted_Six(p) == p > clear_passes + 1

\* app.py:263  range(1, 6) is exhausted after pass_num = 5.
PassesExhausted(p) == p > clear_passes

\* app.py:263-264  the head of `for pass_num in range(1, 6)` and the abort check.
ClearPassCheck(w) ==
    /\ pc[w] = "passCheck"
    /\ IF PassesExhausted(passNum[w])
         THEN /\ pc' = [pc EXCEPT ![w] = "finish"]
              /\ UNCHANGED stoppedByUser
         ELSE IF ABORT_FLAG
         THEN /\ pc' = [pc EXCEPT ![w] = "finish"]
              /\ stoppedByUser' = [stoppedByUser EXCEPT ![w] = TRUE]
         ELSE /\ pc' = [pc EXCEPT ![w] = "list"]
              /\ UNCHANGED stoppedByUser
    /\ UNCHANGED <<shared, ClearFrame, clearLocals, calendar>>

\* Variant: a list call goes out on a missing session too.
ListIssued_Always(sv) == TRUE

\* app.py:267-275  service.events() on service = None raises AttributeError inside
\* the try, before any call: a list call reaches the remote only with a session.
ListIssued(sv) == sv

\* app.py:267-272  one call of events().list(..., maxResults=250).execute() and
\* .get('items', []): the first page only, nextPageToken is not read.
ListPage(n) == Min(n, maxResults)

\* Variant: an empty listing is followed by another pass.
CleanNext_NextPass == "passCheck"

\* app.py:277-279  `if not events:` logs "Clean." and breaks out of the pass loop.
CleanNext == "finish"

\* app.py:267-280  the list step of a pass. A failing call, also the
\* AttributeError of service = None, is swallowed by the bare except and ends the
\* pass loop, events keeping its old value; an empty page ends it with "Clean.".
ClearList(w, ok) ==
    /\ pc[w] = "list"
    /\ lists' = [lists EXCEPT ![w] = IF ListIssued(service[w]) THEN @ + 1 ELSE @]
    /\ IF ~(service[w] /\ ok)
         THEN /\ pc' = [pc EXCEPT ![w] = "finish"]
              /\ lastList' = [lastList EXCEPT ![w] = "failed"]
              /\ UNCHANGED <<found, idx, batch_del>>
         ELSE IF calendar = 0
         THEN /\ pc' = [pc EXCEPT ![w] = CleanNext]
              /\ lastList' = [lastList EXCEPT ![w] = "empty"]
              /\ found' = [found EXCEPT ![w] = 0]
              /\ UNCHANGED <<idx, batch_del>>
         ELSE /\ pc' = [pc EXCEPT ![w] = "delCheck"]
              /\ lastList' = [lastList EXCEPT ![w] = "items"]
              /\ found' = [found EXCEPT ![w] = ListPage(calendar)]
              /\ idx' = [idx EXCEPT ![w] = 1]
              /\ batch_del' = [batch_del EXCEPT ![w] = 0]
    /\ UNCHANGED <<shared, callers, kind, args, syncLocals, syncHist, abortSet, abortInSleep, insAfterAbort,
                   fetchHist, passNum, total_deleted, service, calendar,
                   stoppedByUser, delCalls, lastReply, delLog, logVars, normVars>>

\* app.py:282-283, 296  the head of `for event in events` and the abort check; when
\* the loop is over (exhausted or broken), `if batch_del == 0: break`, else the
\* next pass.
ClearDelCheck(w) ==
    /\ pc[w] = "delCheck"
    /\ IF idx[w] <= found[w] /\ ~ABORT_FLAG
         THEN /\ pc' = [pc EXCEPT ![w] = "delete"]
              /\ UNCHANGED <<passNum, stoppedByUser>>
         ELSE /\ stoppedByUser' = [stoppedByUser EXCEPT ![w] = @ \/ idx[w] <= found[w]]
              /\ IF batch_del[w] = 0
                   THEN /\ pc' = [pc EXCEPT ![w] = "finish"]
                        /\ UNCHANGED passNum
                   ELSE /\ pc' = [pc EXCEPT ![w] = "passCheck"]
                        /\ passNum' = [passNum EXCEPT ![w] = @ + 1]
    /\ UNCHANGED <<shared, ClearFrame, found, idx, batch_del, total_deleted, service,
                   calendar>>

\* Variant: only 404 counts as not found.
IsNotFound_Only404(r, t) == r.status = 404

\* app.py:293  `'404' not in str(e) and '410' not in str(e)` is False: str(e) holds
\* the status of the answer, and t says whether the rest of the text (the URL with
\* the event id, the reason) holds one of the two numbers.
IsNotFound(r, t) == r.status \in {404, 410} \/ t

\* The answer to a delete call as the handler tells them apart (app.py:284-294).
ReplyClass(r) ==
    IF r.kind # "HttpError" THEN r.kind
    ELSE IF r.status = 403 THEN "rate"
    ELSE IF r.status \in {404, 410} THEN "notfound"
    ELSE "error"

\* The log line the handling of answer r writes (app.py:288, 291, 294), d being
\* total_deleted after the call.
DeleteLogLine(r, t, d) ==
    IF r.kind = "ok" THEN (IF d % 10 = 0 THEN "Deleted so far" ELSE "none")
    ELSE IF r.kind = "exception" THEN "none"
    ELSE IF r.status = 403 THEN "Rate limit (Delete)"
    ELSE IF IsNotFound(r, t) THEN "none"
    ELSE "Del Error"

\* app.py:284-294  one delete call and the handling of its answer r. A 403 sleeps
\* 2 s and goes on with the next ref; any other HttpError goes on at once; an
\* exception that is no HttpError is not caught. `record` says whether the history
\* of the answers is kept.
ClearDelete(w, r, t, record) ==
    /\ pc[w] = "delete"
    /\ r.kind = "ok" => calendar > 0
    /\ delCalls' = [delCalls EXCEPT ![w] = IF record THEN @ + 1 ELSE @]
    /\ lastReply' = [lastReply EXCEPT ![w] = IF record THEN ReplyClass(r) ELSE @]
    /\ delLog' = [delLog EXCEPT ![w] =
                    IF record
                      THEN DeleteLogLine(r, t, total_deleted[w] +
                                                 (IF r.kind = "ok" THEN 1 ELSE 0))
                      ELSE @]
    /\ IF r.kind = "ok"
         THEN /\ calendar' = calendar - 1
              /\ batch_del' = [batch_del EXCEPT ![w] = @ + 1]
              /\ total_deleted' = [total_deleted EXCEPT ![w] = @ + 1]
              /\ idx' = [idx EXCEPT ![w] = @ + 1]
              /\ pc' = [pc EXCEPT ![w] = "delCheck"]
         ELSE IF r.kind = "exception"
         THEN /\ pc' = [pc EXCEPT ![w] = "dead"]
              /\ UNCHANGED <<calendar, batch_del, total_deleted, idx>>
         ELSE IF r.status = 403
         THEN /\ pc' = [pc EXCEPT ![w] = "delSleep"]
              /\ UNCHANGED <<calendar, batch_del, total_deleted, idx>>
         ELSE /\ pc' = [pc EXCEPT ![w] = "delCheck"]
              /\ idx' = [idx EXCEPT ![w] = @ + 1]
              /\ UNCHANGED <<calendar, batch_del, total_deleted>>
    /\ UNCHANGED <<shared, callers, kind, args, syncLocals, syncHist, abortSet, abortInSleep, insAfterAbort,
                   fetchHist, passNum, found, service, stoppedByUser, lists, lastList,
                   logVars, normVars>>

\* app.py:292  time.sleep(2) returns; the loop goes on with the next ref.
ClearDelSleep(w) ==
    /\ pc[w] = "delSleep"
    /\ idx' = [idx EXCEPT ![w] = @ + 1]
    /\ pc' = [pc EXCEPT ![w] = "delCheck"]
    /\ UNCHANGED <<shared, ClearFrame, passNum, found, batch_del, total_deleted,
                   service, calendar, stoppedByUser>>

\* app.py:298-300  the final log line and `IS_RUNNING = False`.
ClearFinish(w) ==
    /\ pc[w] = "finish"
    /\ kind[w] = "clear"
    /\ IS_RUNNING' = FALSE
    /\ pc' = [pc EXCEPT ![w] = "done"]
    /\ UNCHANGED <<ABORT_FLAG, ClearFrame, clearLocals, calendar, stoppedByUser>>

\* ------------------------------------------------------- specifications
InsertReplies == {OkReply, ExceptionReply} \cup HttpErrors
DeleteReplies == {OkReply, ExceptionReply} \cup HttpErrors
SessionResults == {"service", "none", "raises"}

\* The whole program: concurrent requests and up to MaxRuns worker threads.
Next ==
    \/ \E route \in Routes : StartRoute(route, DefaultForm, FALSE)
    \/ StopCheck
    \/ StopWrite(FALSE, FALSE)
    \/ \E w \in Runs : WorkerSetRunning(w)
    \/ \E w \in Runs : WorkerClearAbort(w)
    \/ \E w \in Runs, token \in ConfigValues, user \in ConfigValues, ok \in BOOLEAN :
          SyncFetch(w, token, user, ok)
    \/ \E w \in Runs, n \in 0..MaxEvents : SyncNormalize(w, n)
    \/ \E w \in Runs : SyncNormalizeRaises(w)
    \/ \E w \in Runs, r \in SessionResults : SyncSession(w, r)
    \/ \E w \in Runs : SyncItemCheck(w)
    \/ \E w \in Runs : SyncAttemptCheck(w)
    \/ \E w \in Runs, r \in InsertReplies, j \in 0..(JitterSteps - 1) :
          SyncInsert(w, r, j, FALSE)
    \/ \E w \in Runs : SyncSleep(w)
    \/ \E w \in Runs : SyncFinish(w)
    \/ \E w \in Runs, r \in SessionResults : ClearSession(w, r)
    \/ \E w \in Runs : ClearPassCheck(w)
    \/ \E w \in Runs, ok \in BOOLEAN : ClearList(w, ok)
    \/ \E w \in Runs : ClearDelCheck(w)
    \/ \E w \in Runs, r \in DeleteReplies, t \in BOOLEAN : ClearDelete(w, r, t, FALSE)
    \/ \E w \in Runs : ClearDelSleep(w)
    \/ \E w \in Runs : ClearFinish(w)

Spec == Init /\ [][Next]_vars

\* The first start request of the process.
StartFirst(route) == nSpawned = 0 /\ StartRoute(route, DefaultForm, FALSE)

\* One run on its own: a single start request, its worker thread and any number
\* of /stop requests, with the retry history of the run kept.
NextRun ==
    \/ \E route \in Routes : StartFirst(route)
    \/ StopCheck
    \/ StopWrite(FALSE, FALSE)
    \/ \E w \in Runs : WorkerSetRunning(w)
    \/ \E w \in Runs : WorkerClearAbort(w)
    \/ \E w \in Runs, token \in ConfigValues, user \in ConfigValues, ok \in BOOLEAN :
          SyncFetch(w, token, user, ok)
    \/ \E w \in Runs, n \in 0..ScenarioEvents : SyncNormalize(w, n)
    \/ \E w \in Runs : SyncNormalizeRaises(w)
    \/ \E w \in Runs, r \in SessionResults : SyncSession(w, r)
    \/ \E w \in Runs : SyncItemCheck(w)
    \/ \E w \in Runs : SyncAttemptCheck(w)
    \/ \E w \in Runs, r \in InsertReplies, j \in 0..(JitterSteps - 1) :
          SyncInsert(w, r, j, TRUE)
    \/ \E w \in Runs : SyncSleep(w)
    \/ \E w \in Runs : SyncFinish(w)
    \/ \E w \in Runs, r \in SessionResults : ClearSession(w, r)
    \/ \E w \in Runs : ClearPassCheck(w)
    \/ \E w \in Runs, ok \in BOOLEAN : ClearList(w, ok)
    \/ \E w \in Runs : ClearDelCheck(w)
    \/ \E w \in Runs, r \in DeleteReplies, t \in BOOLEAN : ClearDelete(w, r, t, TRUE)
    \/ \E w \in Runs : ClearDelSleep(w)
    \/ \E w \in Runs : ClearFinish(w)

SpecRun == Init /\ [][NextRun]_vars

\* A clear run on its own: one request to /clear_weeks, its worker thread and any
\* number of /stop requests, over a window of up to clear_passes + 1 events, with
\* the history of the answers kept.
ClearWindow == clear_passes + 1

InitClear == InitWindow(0..ClearWindow)

StartClear == StartFirst("clear_weeks")

NextClear ==
    \/ StartClear
    \/ StopCheck
    \/ StopWrite(FALSE, FALSE)
    \/ \E w \in Runs : WorkerSetRunning(w)
    \/ \E w \in Runs : WorkerClearAbort(w)
    \/ \E w \in Runs, r \in SessionResults : ClearSession(w, r)
    \/ \E w \in Runs : ClearPassCheck(w)
    \/ \E w \in Runs, ok \in BOOLEAN : ClearList(w, ok)
    \/ \E w \in Runs : ClearDelCheck(w)
    \/ \E w \in Runs, r \in DeleteReplies, t \in BOOLEAN : ClearDelete(w, r, t, TRUE)
    \/ \E w \in Runs : ClearDelSleep(w)
    \/ \E w \in Runs : ClearFinish(w)

\* The steps of worker thread w in a clear run.
ClearStep(w) ==
    \/ WorkerSetRunning(w)
    \/ WorkerClearAbort(w)
    \/ \E r \in SessionResults : ClearSession(w, r)
    \/ ClearPassCheck(w)
    \/ \E ok \in BOOLEAN : ClearList(w, ok)
    \/ ClearDelCheck(w)
    \/ \E r \in DeleteReplies, t \in BOOLEAN : ClearDelete(w, r, t, TRUE)
    \/ ClearDelSleep(w)
    \/ ClearFinish(w)

\* A started thread is scheduled, and every remote call and every sleep returns.
SpecClear == InitClear /\ [][NextClear]_vars /\ \A w \in Runs : WF_vars(ClearStep(w))

\* A clear run that nothing disturbs: no /stop, a session, and every list and
\* delete call succeeds, over windows of up to one event more than clear_passes
\* pages of maxResults events.
SweepWindows == {0, 1, maxResults, maxResults + 1,
                 clear_passes * maxResults, clear_passes * maxResults + 1}

InitSweep == InitWindow(SweepWindows)

NextSweep ==
    \/ StartClear
    \/ \E w \in Runs : WorkerSetRunning(w)
    \/ \E w \in Runs : WorkerClearAbort(w)
    \/ \E w \in Runs : ClearSession(w, "service")
    \/ \E w \in Runs : ClearPassCheck(w)
    \/ \E w \in Runs : ClearList(w, TRUE)
    \/ \E w \in Runs : ClearDelCheck(w)
    \/ \E w \in Runs : ClearDelete(w, OkReply, FALSE, TRUE)
    \/ \E w \in Runs : ClearFinish(w)

SpecSweep == InitSweep /\ [][NextSweep]_vars

\* ------------------------------------------------------------------ the log
\* app.py:33  LOG_BUFFER.append(entry), by thread t inside log_msg. The entry is
\* written as the number of the append that put it.
AppendEntry(t) ==
    /\ logPc[t] = "idle"
    /\ logAppended < LogCap + LogExtra
    /\ LOG_BUFFER' = Append(LOG_BUFFER, logAppended + 1)
    /\ logAppended' = logAppended + 1
    /\ logPc' = [logPc EXCEPT ![t] = "check"]

\* A log_msg call of thread t, its first statement.
LogAppend(t) == AppendEntry(t) /\ UNCHANGED progVars

\* app.py:34  `if len(LOG_BUFFER) > 500:`, a statement of its own after the append.
LogCheck(t) ==
    /\ logPc[t] = "check"
    /\ logPc' = [logPc EXCEPT ![t] = IF Len(LOG_BUFFER) > LogCap THEN "pop" ELSE "idle"]
    /\ UNCHANGED <<LOG_BUFFER, logAppended, progVars>>

\* app.py:35  LOG_BUFFER.pop(0); on an empty list it raises IndexError, which
\* log_msg does not catch.
LogPop(t) ==
    /\ logPc[t] = "pop"
    /\ IF LOG_BUFFER = <<>>
         THEN /\ logPc' = [logPc EXCEPT ![t] = "raised"]
              /\ UNCHANGED LOG_BUFFER
         ELSE /\ logPc' = [logPc EXCEPT ![t] = "idle"]
              /\ LOG_BUFFER' = Tail(LOG_BUFFER)
    /\ UNCHANGED <<logAppended, progVars>>

\* The log on its own: the threads of the program calling log_msg, each call being
\* the three statements above with no lock around them, up to LogExtra appends
\* beyond the capacity. stream_logs (app.py:339-341) runs in a thread of its own
\* and returns LOG_BUFFER as it is between any two of these steps.
NextLog ==
    \/ \E t \in LogThreads : LogAppend(t)
    \/ \E t \in LogThreads : LogCheck(t)
    \/ \E t \in LogThreads : LogPop(t)

SpecLog == Init /\ [][NextLog]_vars

\* ------------------------------------------- the callers' side and the log
\* Everything but stopPc and the log.
StopFrame == <<shared, nSpawned, pc, kind, args, syncLocals, clearLocals, calendar, syncHist,
               abortHist, fetchHist, clearHist, normVars>>

\* stop_process, app.py:348: log_msg(">>> STOP SIGNAL RECEIVED <<<") is called in
\* the thread of the request (thread 0); its append.
StopLogCall ==
    /\ stopPc = "log"
    /\ AppendEntry(0)
    /\ stopPc' = "logging"
    /\ UNCHANGED StopFrame

\* stop_process, app.py:349: log_msg has returned, the handler answers 'stopping'.
StopReturn ==
    /\ stopPc = "logging"
    /\ logPc[0] = "idle"
    /\ stopPc' = "idle"
    /\ UNCHANGED <<StopFrame, logVars>>

\* clear_logs_route, app.py:352-355: LOG_BUFFER.clear().
ClearLogs ==
    /\ LOG_BUFFER' = <<>>
    /\ UNCHANGED <<logPc, logAppended, progVars>>

\* A /stop request while fewer than LogExtra log lines were written.
StopCheckFew == logAppended < LogExtra /\ StopCheck

\* The operations a caller reaches (the start routes, /stop with its log line,
\* /clear_logs) around one run. stream_logs (app.py:339-341) only reads and is no
\* step. The log lines of the worker are left out here.
NextCallers ==
    \/ \E route \in Routes : StartFirst(route)
    \/ StopCheckFew
    \/ StopWrite(TRUE, FALSE)
    \/ StopLogCall
    \/ LogCheck(0)
    \/ StopReturn
    \/ ClearLogs
    \/ \E w \in Runs : WorkerSetRunning(w)
    \/ \E w \in Runs : WorkerClearAbort(w)
    \/ \E w \in Runs, token \in ConfigValues, user \in ConfigValues, ok \in BOOLEAN :
          SyncFetch(w, token, user, ok)
    \/ \E w \in Runs, n \in 0..MaxEvents : SyncNormalize(w, n)
    \/ \E w \in Runs : SyncNormalizeRaises(w)
    \/ \E w \in Runs, r \in SessionResults : SyncSession(w, r)
    \/ \E w \in Runs : SyncItemCheck(w)
    \/ \E w \in Runs : SyncAttemptCheck(w)
    \/ \E w \in Runs, r \in InsertReplies, j \in 0..(JitterSteps - 1) :
          SyncInsert(w, r, j, FALSE)
    \/ \E w \in Runs : SyncSleep(w)
    \/ \E w \in Runs : SyncFinish(w)
    \/ \E w \in Runs, r \in SessionResults : ClearSession(w, r)
    \/ \E w \in Runs : ClearPassCheck(w)
    \/ \E w \in Runs, ok \in BOOLEAN : ClearList(w, ok)
    \/ \E w \in Runs : ClearDelCheck(w)
    \/ \E w \in Runs, r \in DeleteReplies, t \in BOOLEAN : ClearDelete(w, r, t, FALSE)
    \/ \E w \in Runs : ClearDelSleep(w)
    \/ \E w \in Runs : ClearFinish(w)

SpecCallers == Init /\ [][NextCallers]_vars

\* The first start request of the process with the form the caller sent.
StartForm(route, form) == nSpawned = 0 /\ StartRoute(route, form, TRUE)

\* One run started with any form, its worker thread and any number of /stop requests.
NextStart ==
    \/ \E route \in Routes, form \in Forms : StartForm(route, form)
    \/ StopCheck
    \/ StopWrite(FALSE, FALSE)
    \/ \E w \in Runs : WorkerSetRunning(w)
    \/ \E w \in Runs : WorkerClearAbort(w)
    \/ \E w \in Runs, token \in ConfigValues, user \in ConfigValues, ok \in BOOLEAN :
          SyncFetch(w, token, user, ok)
    \/ \E w \in Runs, n \in 0..MaxEvents : SyncNormalize(w, n)
    \/ \E w \in Runs : SyncNormalizeRaises(w)
    \/ \E w \in Runs, r \in SessionResults : SyncSession(w, r)
    \/ \E w \in Runs : SyncItemCheck(w)
    \/ \E w \in Runs : SyncAttemptCheck(w)
    \/ \E w \in Runs, r \in InsertReplies, j \in 0..(JitterSteps - 1) :
          SyncInsert(w, r, j, FALSE)
    \/ \E w \in Runs : SyncSleep(w)
    \/ \E w \in Runs : SyncFinish(w)
    \/ \E w \in Runs, r \in SessionResults : ClearSession(w, r)
    \/ \E w \in Runs : ClearPassCheck(w)
    \/ \E w \in Runs, ok \in BOOLEAN : ClearList(w, ok)
    \/ \E w \in Runs : ClearDelCheck(w)
    \/ \E w \in Runs, r \in DeleteReplies, t \in BOOLEAN : ClearDelete(w, r, t, FALSE)
    \/ \E w \in Runs : ClearDelSleep(w)
    \/ \E w \in Runs : ClearFinish(w)

SpecStart == Init /\ [][NextStart]_vars

\* The sync side of the whole program: concurrent start and /stop requests and up to
\* MaxRuns worker_sync threads with their configuration set, with the position of the
\* workers at each write of ABORT_FLAG kept.
SyncRoutes == Routes \ {"clear_weeks"}

NextAbort ==
    \/ \E route \in SyncRoutes : StartRoute(route, DefaultForm, FALSE)
    \/ StopCheck
    \/ StopWrite(FALSE, TRUE)
    \/ \E w \in Runs : WorkerSetRunning(w)
    \/ \E w \in Runs : WorkerClearAbort(w)
    \/ \E w \in Runs, ok \in BOOLEAN : SyncFetch(w, "set", "set", ok)
    \/ \E w \in Runs, n \in 0..MaxEvents : SyncNormalize(w, n)
    \/ \E w \in Runs : SyncNormalizeRaises(w)
    \/ \E w \in Runs, r \in SessionResults : SyncSession(w, r)
    \/ \E w \in Runs : SyncItemCheck(w)
    \/ \E w \in Runs : SyncAttemptCheck(w)
    \/ \E w \in Runs, r \in InsertReplies, j \in 0..(JitterSteps - 1) :
          SyncInsert(w, r, j, FALSE)
    \/ \E w \in Runs : SyncSleep(w)
    \/ \E w \in Runs : SyncFinish(w)

SpecAbort == Init /\ [][NextAbort]_vars

\* =================================================================== claims
ActiveWorkers == {w \in Runs : Active(w)}

\* C1: at most one background worker is active at any time, under every
\* interleaving of start requests and worker steps.
C1_AtMostOneWorker == Cardinality(ActiveWorkers) <= 1

\* C2: every run sets IS_RUNNING back to False: whenever a worker thread ends,
\* whatever the outcome of its steps, it leaves IS_RUNNING = False behind.
C2_RunEndsIdle ==
    [][\A w \in Runs :
         (Active(w) /\ pc'[w] \in {"done", "dead"}) => ~IS_RUNNING']_vars

\* C3: the running value reported by /logs is true exactly in the states in which
\* a spawned worker has not yet finished.
C3_RunningIffWorker == IS_RUNNING <=> (ActiveWorkers # {})

\* C4: after the abort flag is set during a sync run, at most one more insert of
\* that run succeeds (the one in flight).
C4_OneMoreInsertAtMost == \A w \in Runs : insAfterAbort[w] <= 1

\* C5: stop_process never writes ABORT_FLAG = True in a state where IS_RUNNING is
\* False.
C5_AbortOnlyWhileRunning ==
    [][(stopPc = "checked" /\ ABORT_FLAG') => IS_RUNNING]_vars

\* C6: a run leaves its loops on the abort flag only if /stop wrote the flag during
\* that run: a flag left True by an earlier run never stops it, and a sync run
\* during which no /stop wrote the flag goes through all of its events.
C6_Thm ==
    \A w \in Runs :
        /\ stoppedByUser[w] => abortSet[w]
        /\ (kind[w] = "sync" /\ pc[w] \in {"finish", "done"} /\ i[w] > 0 /\ ~abortSet[w])
              => i[w] = total[w] + 1

\* C6 witness: run v was stopped by the user and is over, and the later sync run w,
\* during which no /stop wrote the flag, went through all of its events.
C6_Witness ==
    \E v \in Runs, w \in Runs :
        /\ v < w
        /\ stoppedByUser[v] /\ pc[v] = "done"
        /\ kind[w] = "sync" /\ pc[w] = "done" /\ ~abortSet[w] /\ ~stoppedByUser[w]
        /\ total[w] >= 1 /\ i[w] = total[w] + 1 /\ Len(inserted[w]) = total[w]

IsStrictlyIncreasing(q) == \A a \in 1..Len(q), b \in 1..Len(q) : a < b => q[a] < q[b]

\* C7: the events a sync run inserted are, in order of insertion, a strictly
\* increasing sequence of indices of the normalized sequence: an order-preserving
\* subsequence in which no event occurs twice.
C7_Thm ==
    \A w \in Runs :
        /\ IsStrictlyIncreasing(inserted[w])
        /\ \A a \in 1..Len(inserted[w]) : inserted[w][a] \in 1..total[w]

\* C7 witness: a run inserted events 1 and 3 and not event 2.
C7_Witness == \E w \in Runs : inserted[w] = <<1, 3>> /\ 2 \in failed[w]

\* A finished sync run that was not aborted, met no other error and got fewer
\* rate limits than max_retries inserted all its events, in order.
C8_AllInserted ==
    \A w \in Runs :
        (/\ kind[w] = "sync" /\ pc[w] = "done" /\ i[w] > 0
         /\ ~abortSet[w] /\ ~gotError[w] /\ rlTotal[w] < max_retries)
        => /\ count[w] = total[w]
           /\ inserted[w] = [k \in 1..total[w] |-> k]

\* A rate-limit answer that follows an earlier one for the same event sleeps longer.
C8_DelaysIncrease ==
    \A w \in Runs :
        (pc[w] = "insert" /\ pc'[w] = "sleep" /\ lastDelay[w] > 0)
        => lastDelay'[w] > lastDelay[w]

\* C8: in a sync run over 3 events where item 2 is rate-limited twice and then
\* succeeds, with no other error and no abort, the backoff delays strictly
\* increase, all events are inserted and the final count is 3 (stated for every
\* run with fewer rate limits than max_retries).
C8_Thm == []C8_AllInserted /\ [][C8_DelaysIncrease]_vars

\* C8 witness: a run of 3 events with exactly two rate limits, no other error and
\* no abort is over, with count = 3.
C8_Witness ==
    \E w \in Runs :
        /\ kind[w] = "sync" /\ pc[w] = "done" /\ total[w] = 3 /\ rlTotal[w] = 2
        /\ ~abortSet[w] /\ ~gotError[w] /\ count[w] = 3

\* No event gets more than max_retries insert calls; count counts the inserted
\* events, and no given-up event is among them.
C9_Bounded ==
    \A w \in Runs :
        /\ tries[w] <= max_retries
        /\ count[w] = Len(inserted[w])
        /\ \A k \in failed[w] : \A a \in 1..Len(inserted[w]) : inserted[w][a] # k

\* After the max_retries-th call of an event the worker gives the event up and
\* goes to the head of the loop for the next event.
C9_GoesOn ==
    \A w \in Runs :
        (pc[w] = "attemptCheck" /\ tries[w] = max_retries /\ pc'[w] # pc[w])
        => /\ pc'[w] = "itemCheck"
           /\ i'[w] = i[w] + 1
           /\ count'[w] = count[w]
           /\ i[w] \in failed'[w]

Attempted(w) == failed[w] \cup {inserted[w][a] : a \in 1..Len(inserted[w])}

\* An event given up is behind the loop index: no later insert call is for it.
C11_NoRetry ==
    \A w \in Runs :
        /\ \A k \in failed[w] : k < i[w]
        /\ (kind[w] = "sync" /\ pc[w] \in {"finish", "done"} /\ i[w] > 0 /\ ~abortSet[w])
              => Attempted(w) = 1..total[w]

\* The insert call answered by an HttpError that is no rate limit is the last call
\* for its event, which is not counted, and the loop goes to its next event.
C11_GoesOn ==
    \A w \in Runs :
        (pc[w] = "insert" /\ i[w] \in failed'[w])
        => /\ pc'[w] = "itemCheck"
           /\ i'[w] = i[w] + 1
           /\ count'[w] = count[w]

C12_NoRequest == \A w \in Runs : cfgBlank[w] => sduiRequests[w] = 0

\* A sync run that got no data or no event (total stays 0) never comes to the
\* session or the insert loop: no insert call is issued.
C12_NoInsert ==
    \A w \in Runs :
        (kind[w] = "sync" /\ total[w] = 0)
        => /\ pc[w] \in {"spawned", "clearAbort", "fetch", "normalize", "done", "dead"}
           /\ tries[w] = 0 /\ count[w] = 0 /\ inserted[w] = <<>>

\* The step that ends the run after the fetch or the normalization writes
\* IS_RUNNING = False.
C12_BackToIdle ==
    \A w \in Runs :
        (pc[w] \in {"fetch", "normalize"} /\ pc'[w] = "done") => ~IS_RUNNING'

C13_SyncNoCall ==
    \A w \in Runs :
        (kind[w] = "sync" /\ pc[w] = "done" /\ total[w] > 0 /\ i[w] = 0)
        => tries[w] = 0 /\ count[w] = 0 /\ inserted[w] = <<>>

\* A clear run whose service is None issues no list and no delete call: it goes
\* from the head of the first pass to its end.
C13_ClearNoCall ==
    \A w \in Runs :
        (kind[w] = "clear" /\ passNum[w] >= 1 /\ ~service[w])
        => /\ pc[w] \in {"passCheck", "list", "finish", "done"}
           /\ passNum[w] = 1
           /\ lists[w] = 0 /\ delCalls[w] = 0 /\ total_deleted[w] = 0

\* The step that ends a run without a session writes IS_RUNNING = False.
C13_BackToIdle ==
    \A w \in Runs :
        /\ (kind[w] = "sync" /\ pc[w] = "session" /\ pc'[w] = "done") => ~IS_RUNNING'
        /\ (kind[w] = "clear" /\ ~service[w] /\ pc[w] = "finish" /\ pc'[w] = "done")
              => ~IS_RUNNING'

C14_OnePass ==
    \A w \in Runs :
        (kind[w] = "clear" /\ lists[w] = 1 /\ lastList[w] = "empty")
        => /\ pc[w] \in {"finish", "done"}
           /\ passNum[w] = 1
           /\ delCalls[w] = 0 /\ total_deleted[w] = 0

\* The last step of such a run writes IS_RUNNING = False.
C14_BackToIdle ==
    \A w \in Runs :
        (lastList[w] = "empty" /\ pc[w] = "finish" /\ pc'[w] = "done") => ~IS_RUNNING'

\* Such a run comes to its end.
C14_Ends == \A w \in Runs : (lastList[w] = "empty") ~> (pc[w] = "done")

C15_AtMostFive ==
    \A w \in Runs :
        /\ lists[w] <= clear_passes
        /\ passNum[w] <= clear_passes + 1
        /\ (pc[w] \in {"passCheck", "list"} /\ passNum[w] > 1) => batch_del[w] > 0

\* At the end of a pass in which no delete succeeded the pass loop is left.
C15_StopsOnNoProgress ==
    \A w \in Runs :
        (pc[w] = "delCheck" /\ pc'[w] # "delCheck" /\ pc'[w] # "delete"
                            /\ batch_del[w] = 0)
        => pc'[w] = "finish"

\* Every started clear run comes to the end of its thread.
C15_Terminates ==
    \A w \in Runs : (pc[w] = "spawned") ~> (pc[w] \in {"done", "dead"})

\* C15: a clear run makes at most 5 scan passes and stops after the first pass
\* whose listing was not empty and in which no delete succeeded; it terminates
\* whatever the remote calendar answers.
C15_Thm == []C15_AtMostFive /\ [][C15_StopsOnNoProgress]_vars /\ C15_Terminates

\* C15 witness: a run is over after five passes, each of which deleted something,
\* with events left in the window.
C15_Witness ==
    \E w \in Runs :
        /\ kind[w] = "clear" /\ pc[w] = "done" /\ lists[w] = clear_passes
        /\ passNum[w] = clear_passes + 1 /\ calendar > 0

\* C16: a clear run that is not aborted and meets no list or delete error leaves
\* no event in the window when it is over, for every number of events the window
\* held at the start.
C16_Converges ==
    \A w \in Runs : (kind[w] = "clear" /\ pc[w] = "done") => calendar = 0

\* C17: the list step of a clear pass finds every event of the window: right after
\* it, the number of refs found is the number of events in the window.
C17_ListsAll ==
    \A w \in Runs :
        (pc[w] = "delCheck" /\ idx[w] = 1 /\ batch_del[w] = 0) => found[w] = calendar

\* C18: after the sleep that follows a rate-limited delete, the delete is retried
\* for the same ref: the loop does not move on to the next ref.
C18_RetriesSame ==
    [][\A w \in Runs :
         (pc[w] = "delSleep" /\ pc'[w] # "delSleep") => idx'[w] = idx[w]]_vars

\* A delete answered 404 or 410 writes no log line.
C19_NoLog == \A w \in Runs : lastReply[w] = "notfound" => delLog[w] = "none"

\* The handling of such an answer counts nothing and goes to the head of the loop
\* for the next ref.
C19_GoesOn ==
    \A w \in Runs :
        (pc[w] = "delete" /\ delCalls'[w] = delCalls[w] + 1
                          /\ lastReply'[w] = "notfound")
        => /\ pc'[w] = "delCheck"
           /\ idx'[w] = idx[w] + 1
           /\ batch_del'[w] = batch_del[w]
           /\ total_deleted'[w] = total_deleted[w]

\* C19: a delete answered 404 or 410 is a benign no-op in worker_clear: no error
\* log line, the pass goes on with its remaining refs, and the answer is not
\* counted as a deletion.
C19_Thm == []C19_NoLog /\ [][C19_GoesOn]_vars

\* C19 witness: the delete of the first ref of a pass was answered not-found,
\* nothing was logged or counted, and the worker is at the delete of the second.
C19_Witness ==
    \E w \in Runs :
        /\ pc[w] = "delete" /\ idx[w] = 2 /\ lastReply[w] = "notfound"
        /\ delLog[w] = "none" /\ delCalls[w] = 1 /\ total_deleted[w] = 0

\* The buffer holds the most recently appended entries, in the order of append.
C20_MostRecent ==
    LOG_BUFFER = [j \in 1..Len(LOG_BUFFER) |-> logAppended - Len(LOG_BUFFER) + j]

\* C20: whatever threads appended, the log buffer holds at most 500 entries in
\* every state that /logs can return, and they are the most recently appended
\* ones in append order.
C20_Bounded == Len(LOG_BUFFER) <= LogCap /\ C20_MostRecent

\* C21: only a worker thread appends to the log buffer and only a worker thread
\* takes IS_RUNNING from True to False: a step that does either is a step of a
\* worker thread, never of a caller's request.
C21_WorkerOnly ==
    [][(Len(LOG_BUFFER') > Len(LOG_BUFFER) \/ (IS_RUNNING /\ ~IS_RUNNING'))
         => \E w \in Runs : pc'[w] # pc[w] \/ logPc'[w] # logPc[w]]_vars

\* C22: the log buffer is append-only: a step leaves it alone, appends one entry,
\* or drops the oldest entry of a buffer over its capacity.
C22_AppendOnly ==
    [][\/ LOG_BUFFER' = LOG_BUFFER
       \/ LOG_BUFFER' = Append(LOG_BUFFER, logAppended')
       \/ Len(LOG_BUFFER) > LogCap /\ LOG_BUFFER' = Tail(LOG_BUFFER)]_vars

\* ------------------------------------------------------------------ the normalizers
\* process_sdui_data (app.py) and transform_sdui_to_csv_rows (main.py) on one payload.
\* A string is the sequence of its pieces: "7A_MATH" is <<"7A", "_", "MATH">>, and a
\* character outside ASCII is the piece naming its code point.

None_ts == 0 - 1                 \* begins_at / ends_at absent from the record (None)
Kinds == {"None", "PLANNED", "HOLIDAY", "EVENT"}
Oftypes == {"None", "EXAM", "SUBSTITUTION", "BOOKABLE_CHANGE", "CANCLED", "ADDITIONAL"}
DisplayNames == {<<"MATH">>, <<"7A", "_", "MATH">>, <<"10B", "_", "Chemistry">>,
                 <<"7A", "_", "MATH", "_", "G1">>}
TeacherLists == {<<>>, <<"Dr.X">>, <<"Dr.X", "Ms.Y">>}

BaseLesson ==
    [kind |-> "PLANNED", oftype |-> "None", has_name |-> TRUE,
     displayname |-> <<"7A", "_", "MATH">>, meta_name |-> <<>>, comment |-> <<>>,
     begins_at |-> 1, ends_at |-> 2, teachers |-> <<>>, bookables |-> <<>>]

KindSlice == {[BaseLesson EXCEPT !.kind = k, !.oftype = o] : k \in Kinds, o \in Oftypes}
NameSlice ==
    {[BaseLesson EXCEPT !.oftype = "EXAM", !.displayname = d, !.teachers = t] :
        d \in DisplayNames, t \in TeacherLists}
    \cup {[BaseLesson EXCEPT !.has_name = FALSE, !.displayname = <<>>]}
TimeSlice ==
    {[BaseLesson EXCEPT !.begins_at = b, !.ends_at = e] :
        b \in {None_ts, 0, 1}, e \in {None_ts, 0, 2}}
HolidaySlice ==
    {[BaseLesson EXCEPT !.kind = k, !.meta_name = m, !.comment = c] :
        k \in {"HOLIDAY", "EVENT"}, m \in {<<>>, <<"Easter">>}, c \in {<<>>, <<"no school">>}}
LessonRecords == KindSlice \cup NameSlice \cup TimeSlice \cup HolidaySlice
Payloads == UNION {[1..n -> LessonRecords] : n \in 0..MaxLessons}

Falsy(ts) == ts = None_ts \/ ts = 0

Underscores(s) == {k \in 1..Len(s) : s[k] = "_"}
\* str.split('_')[-1]
LastSegment(s) ==
    IF Underscores(s) = {} THEN s
    ELSE SubSeq(s, (CHOOSE k \in Underscores(s) : \A m \in Underscores(s) : m <= k) + 1, Len(s))
\* parts = str.split('_', 1); parts[1] if len(parts) > 1 else parts[0]
AfterFirst(s) ==
    IF Underscores(s) = {} THEN s
    ELSE SubSeq(s, (CHOOSE k \in Underscores(s) : \A m \in Underscores(s) : k <= m) + 1, Len(s))

RECURSIVE JoinComma(_)
JoinComma(names) ==
    IF Len(names) = 0 THEN <<>>
    ELSE IF Len(names) = 1 THEN names
    ELSE <<names[1], ", ">> \o JoinComma(Tail(names))

oftype_map_Plain(oftype) ==
    CASE oftype = "CANCLED" -> <<"Cancelled: ">>
      [] oftype = "BOOKABLE_CHANGE" -> <<"Room: ">>
      [] oftype = "SUBSTITUTION" -> <<"Sub: ">>
      [] oftype = "EXAM" -> <<"Exam: ">>
      [] OTHER -> <<>>

oftype_map(oftype) ==
    CASE oftype = "CANCLED" -> <<"U+274C", " ", "Cancelled: ">>
      [] oftype = "BOOKABLE_CHANGE" -> <<"U+26A0", "U+FE0F", " ", "Room: ">>
      [] oftype = "SUBSTITUTION" -> <<"U+1F504", " ", "Sub: ">>
      [] oftype = "EXAM" -> <<"U+1F4DD", " ", "Exam: ">>
      [] OTHER -> <<>>

COLOR_EXAM == "11"
COLOR_HOLIDAY == "10"
COLOR_CHANGE == "6"
COLOR_EVENT == "3"
COLOR_DEFAULT == "9"
COLOR_CANCELLED == "8"

IsSpecial(l) == l.kind \in {"HOLIDAY", "EVENT"}

SpecialSubject(l) ==
    IF l.meta_name # <<>> THEN l.meta_name
    ELSE IF l.comment # <<>> THEN l.comment
    ELSE <<"Event">>

Subject(l) == LastSegment(IF l.has_name THEN l.displayname ELSE <<"Unknown">>)

SummaryPrefix(l) ==
    IF IsSpecial(l)
    THEN IF l.kind = "HOLIDAY" THEN <<"U+1F3D6", "U+FE0F", " ">> ELSE <<"U+1F4C5", " ">>
    ELSE oftype_map(l.oftype)

Summary(l) == SummaryPrefix(l) \o (IF IsSpecial(l) THEN SpecialSubject(l) ELSE Subject(l))

color_id_RoomDefault(l) ==
    IF IsSpecial(l)
    THEN IF l.kind = "HOLIDAY" THEN COLOR_HOLIDAY ELSE COLOR_EVENT
    ELSE IF l.oftype = "EXAM" THEN COLOR_EXAM
    ELSE IF l.oftype = "SUBSTITUTION" THEN COLOR_CHANGE
    ELSE IF l.oftype = "CANCLED" THEN COLOR_CANCELLED
    ELSE COLOR_DEFAULT

color_id(l) ==
    IF IsSpecial(l)
    THEN IF l.kind = "HOLIDAY" THEN COLOR_HOLIDAY ELSE COLOR_EVENT
    ELSE IF l.oftype = "EXAM" THEN COLOR_EXAM
    ELSE IF l.oftype \in {"SUBSTITUTION", "BOOKABLE_CHANGE"} THEN COLOR_CHANGE
    ELSE IF l.oftype = "CANCLED" THEN COLOR_CANCELLED
    ELSE COLOR_DEFAULT

Description(l) ==
    IF IsSpecial(l)
    THEN <<"Type: ", l.kind, "\nComment: ">> \o l.comment
    ELSE <<"Teacher: ">> \o JoinComma(l.teachers)
            \o <<"\nType: ", IF l.kind # "None" THEN l.kind ELSE l.oftype>>

isoformat(ts) == <<"iso", ts>>

EventOf(l) ==
    [summary |-> Summary(l), start |-> isoformat(l.begins_at), end |-> isoformat(l.ends_at),
     location |-> IF IsSpecial(l) THEN <<>> ELSE JoinComma(l.bookables),
     description |-> Description(l), colorId |-> color_id(l)]

Skipped(l) == Falsy(l.begins_at) \/ Falsy(l.ends_at)

strftime(ts) == <<"ymdhm", ts>>

RowOf(l) ==
    [subject_name |-> AfterFirst(IF l.has_name THEN l.displayname ELSE <<"Unknown">>),
     Start |-> strftime(l.begins_at), End |-> strftime(l.ends_at)]

ctlVars == <<shared, callers, pc, kind, args, syncLocals, clearLocals, calendar, syncHist,
             abortHist, fetchHist, clearHist>>

\* process_sdui_data(sdui_data): a payload without 'data' has no lessons
ProcessCall(hasData, ls) ==
    /\ normMode = "idle"
    /\ normMode' = "app"
    /\ lessons' = IF hasData THEN ls ELSE <<>>
    /\ li' = 1
    /\ UNCHANGED <<events, rows, srcOf, ctlVars, logVars>>

\* transform_sdui_to_csv_rows(sdui_data)
TransformCall(hasData, ls) ==
    /\ normMode = "idle"
    /\ normMode' = "csv"
    /\ lessons' = IF hasData THEN ls ELSE <<>>
    /\ li' = 1
    /\ UNCHANGED <<events, rows, srcOf, ctlVars, logVars>>

\* one iteration of "for lesson in lessons"
NormLesson ==
    /\ normMode = "app"
    /\ li <= Len(lessons)
    /\ li' = li + 1
    /\ IF Skipped(lessons[li])
       THEN UNCHANGED <<events, srcOf>>
       ELSE /\ events' = Append(events, EventOf(lessons[li]))
            /\ srcOf' = Append(srcOf, li)
    /\ UNCHANGED <<lessons, normMode, rows, ctlVars, logVars>>

\* one iteration of "for sdui_event in lessons"
CsvRow ==
    /\ normMode = "csv"
    /\ li <= Len(lessons)
    /\ li' = li + 1
    /\ IF Skipped(lessons[li])
       THEN UNCHANGED <<rows, srcOf>>
       ELSE /\ rows' = Append(rows, RowOf(lessons[li]))
            /\ srcOf' = Append(srcOf, li)
    /\ UNCHANGED <<lessons, normMode, events, ctlVars, logVars>>

NormReturn ==
    /\ normMode \in {"app", "csv"}
    /\ li > Len(lessons)
    /\ normMode' = "returned"
    /\ UNCHANGED <<lessons, li, events, rows, srcOf, ctlVars, logVars>>

NextNorm ==
    \/ normMode = "idle" /\ \E hasData \in BOOLEAN, ls \in Payloads : ProcessCall(hasData, ls)
    \/ normMode = "idle" /\ \E hasData \in BOOLEAN, ls \in Payloads : TransformCall(hasData, ls)
    \/ NormLesson
    \/ CsvRow
    \/ NormReturn

SpecNorm == Init /\ [][NextNorm]_vars

\* C23: process_sdui_data returns exactly one event for each record that carries both a
\* begin and an end timestamp, whatever their values, none for a record missing either,
\* and the events keep the order of the records.
C23_OnePerTimed ==
    normMode = "app" =>
        /\ Len(srcOf) = Len(events)
        /\ {srcOf[k] : k \in 1..Len(srcOf)}
              = {n \in 1..(li - 1) : lessons[n].begins_at # None_ts /\ lessons[n].ends_at # None_ts}
        /\ \A k \in 1..Len(srcOf) : events[k] = EventOf(lessons[srcOf[k]])
        /\ \A k, m \in 1..Len(srcOf) : k < m => srcOf[k] < srcOf[m]

\* sub is the final underscore-delimited segment of name
IsFinalSegment(sub, name) ==
    /\ Underscores(sub) = {}
    /\ Len(sub) <= Len(name)
    /\ sub = SubSeq(name, Len(name) - Len(sub) + 1, Len(name))
    /\ Len(sub) < Len(name) => name[Len(name) - Len(sub)] = "_"

NameOf(l) == IF l.has_name THEN l.displayname ELSE <<"Unknown">>

\* C24 (process_sdui_data): the subject of an ordinary lesson, the summary after its
\* prefix, is the final underscore-delimited segment of the course display name.
C24_AppSubject ==
    \A k \in 1..Len(events) :
        LET l == lessons[srcOf[k]]
            sub == SubSeq(events[k].summary, Len(oftype_map(l.oftype)) + 1,
                          Len(events[k].summary))
        IN  ~IsSpecial(l) => IsFinalSegment(sub, NameOf(l)) /\ LastSegment(sub) = sub

\* C24: in both normalizers the subject of an ordinary lesson is the final
\* underscore-delimited segment of the course display name (a name without underscore
\* is kept, several underscores keep only the last segment), and truncating the subject
\* again changes nothing.
C24_FinalSegment ==
    /\ C24_AppSubject
    /\ \A k \in 1..Len(rows) :
          LET l == lessons[srcOf[k]]
          IN  /\ IsFinalSegment(rows[k].subject_name, NameOf(l))
              /\ AfterFirst(rows[k].subject_name) = rows[k].subject_name

\* the part of the summary of event k that precedes its subject
PrefixOf(k) ==
    LET l == lessons[srcOf[k]]
        sub == IF IsSpecial(l) THEN SpecialSubject(l) ELSE LastSegment(NameOf(l))
    IN  SubSeq(events[k].summary, 1, Len(events[k].summary) - Len(sub))

\* C25: the pair (summary prefix, category) of an event depends only on (kind, args, oftype) of
\* its record; an ordinary lesson is Exam ('11') for EXAM, Changed ('6') for SUBSTITUTION
\* or BOOKABLE_CHANGE, Cancelled ('8') for CANCLED and Default ('9') for any other or
\* absent oftype; a HOLIDAY record is Holiday ('10') and an EVENT record Event ('3')
\* whatever its oftype.
C25_PureMapping ==
    /\ \A k, m \in 1..Len(events) :
          LET a == lessons[srcOf[k]]
              b == lessons[srcOf[m]]
          IN  (a.kind = b.kind /\ a.oftype = b.oftype)
                  => PrefixOf(k) = PrefixOf(m) /\ events[k].colorId = events[m].colorId
    /\ \A k \in 1..Len(events) :
          LET l == lessons[srcOf[k]]
          IN  events[k].colorId =
                 CASE l.kind = "HOLIDAY" -> "10"
                   [] l.kind = "EVENT" -> "3"
                   [] l.kind \notin {"HOLIDAY", "EVENT"} /\ l.oftype = "EXAM" -> "11"
                   [] l.kind \notin {"HOLIDAY", "EVENT"}
                        /\ l.oftype \in {"SUBSTITUTION", "BOOKABLE_CHANGE"} -> "6"
                   [] l.kind \notin {"HOLIDAY", "EVENT"} /\ l.oftype = "CANCLED" -> "8"
                   [] OTHER -> "9"

\* two exam lessons that differ in subject and teachers get the same prefix and colour
C25_Witness ==
    /\ normMode = "returned"
    /\ Len(events) = 2
    /\ lessons[1].kind = "PLANNED" /\ lessons[2].kind = "PLANNED"
    /\ lessons[1].oftype = "EXAM" /\ lessons[2].oftype = "EXAM"
    /\ events[1].summary # events[2].summary
    /\ events[1].description # events[2].description
    /\ events[1].colorId = "11" /\ events[2].colorId = "11"
    /\ PrefixOf(1) = PrefixOf(2)
    /\ PrefixOf(1) # <<>>

Contains(text, part) ==
    \E n \in 1..(Len(text) - Len(part) + 1) : SubSeq(text, n, n + Len(part) - 1) = part

\* process_sdui_data has gone through a payload of one ordinary exam lesson of course
\* "10B_Chemistry", begin 1, end 2, teacher "Dr.X"
C26_Case ==
    /\ normMode = "app"
    /\ li > Len(lessons)
    /\ Len(lessons) = 1
    /\ lessons[1].kind = "PLANNED"
    /\ lessons[1].oftype = "EXAM"
    /\ lessons[1].has_name
    /\ lessons[1].displayname = <<"10B", "_", "Chemistry">>
    /\ lessons[1].teachers = <<"Dr.X">>
    /\ lessons[1].begins_at = 1
    /\ lessons[1].ends_at = 2

C27_StartBeforeEnd == \A w \in Runs : pc[w] # "unborn" => args[w][1] <= args[w][2]

\* C28: in a clear run, once the abort flag was set, at most the delete call already in
\* flight completes: no delete and no list call is issued any more, no event leaves the
\* calendar but by the call in flight, and the run ends with IS_RUNNING = False.
C28_AbortStopsClear ==
    [][\A w \in Runs :
          (kind[w] = "clear" /\ abortSet[w]) =>
              /\ pc'[w] \in {"delete", "list"} => pc'[w] = pc[w]
              /\ calendar' # calendar => pc[w] = "delete"
              /\ (pc'[w] \in {"done", "dead"} /\ pc[w] \notin {"done", "dead"})
                    => ~IS_RUNNING']_vars

\* C29: in worker_sync, once the abort flag was set while an event was waiting in its
\* rate-limit backoff sleep, the run issues no further insert attempt, neither for
\* that event nor for a later one.
C29_NoInsertAfterSleepAbort ==
    [][\A w \in Runs : (abortInSleep[w] /\ pc'[w] = "insert") => pc[w] = "insert"]_vars

====
